---- MODULE Spec2Model ----
(***************************************************************************)
(* Model of the 3DM-GX3-25 serial driver (src/src/imu_3dm_gx3.cc):         *)
(* the checksum codec, the start-up handshake of main(), the stream loop   *)
(* and the SIGINT handler that shares the serial port with main().         *)
(***************************************************************************)
EXTENDS Integers, Sequences, FiniteSets, TLC

\* ---------------------------------------------------------------- bounds
MaxFrames  == 2     \* frames the stream loop reads in one run
MaxSignals == 1     \* SIGINT deliveries in one run
MaxT0      == 0     \* wall-clock readings (seconds) for the epoch t0
MaxDelay   == 1     \* largest configured delay (seconds)
MaxLen     == 4     \* short checksum buffers: every length 2..MaxLen
MaxLong    == 261   \* long checksum buffers: lengths 259..MaxLong

\* ------------------------------------------------------ program constants
REPLY_LENGTH    == 4
STOP_CMD_LENGTH == 3
MODE_CMD_LENGTH == 4
DATA_LENGTH     == 79
GRAVITY_MILLI   == 9807      \* GRAVITY_CONSTANT 9.807, in thousandths
TIMER_REPLY_LENGTH == 7
USHORT_MOD      == 65536
TICKS_PER_SEC   == 62500     \* times are counted in timer ticks of 1/62500 s

stop      == <<250, 117, 180>>                   \* FA 75 B4
mode0     == <<212, 163, 71, 0>>                 \* D4 A3 47 00
preset    == <<214, 198, 107, 204>>              \* D6 C6 6B CC
set_timer == <<215, 193, 41, 1, 0, 0, 0, 0>>     \* D7 C1 29 01 00 00 00 00

\* ------------------------------------------------------------ FrameCodec
\* iterations lo .. hi-1 of the for loop of validate_checksum applied to
\* chksum, each one "chksum += data[i]" on an unsigned short
RECURSIVE chksum_loop(_, _, _, _)
chksum_loop(bytes, lo, hi, chksum) ==
  IF hi <= lo THEN chksum
  ELSE IF hi = lo + 1 THEN (chksum + bytes[lo + 1]) % USHORT_MOD
  ELSE LET mid  == (lo + hi) \div 2
           left == chksum_loop(bytes, lo, mid, chksum)
       IN  IF left < USHORT_MOD      \* always so: left is reduced mod 2^16
             THEN chksum_loop(bytes, mid, hi, left)
             ELSE left

\* the loop running one byte too far (i < length - 1)
validate_checksum_off(bytes, length) ==
  LET chksum  == chksum_loop(bytes, 0, length - 1, 0)
      shifted == (bytes[length - 1] * 256) % USHORT_MOD
      rchksum == (shifted + bytes[length]) % USHORT_MOD
  IN  chksum = rchksum

\* the received checksum taken low byte first
validate_checksum_le(bytes, length) ==
  LET chksum  == chksum_loop(bytes, 0, length - 2, 0)
      shifted == (bytes[length] * 256) % USHORT_MOD
      rchksum == (shifted + bytes[length - 1]) % USHORT_MOD
  IN  chksum = rchksum

\* C index k is TLA+ index k + 1
validate_checksum(bytes, length) ==
  LET chksum  == chksum_loop(bytes, 0, length - 2, 0)
      shifted == (bytes[length - 1] * 256) % USHORT_MOD
      rchksum == (shifted + bytes[length]) % USHORT_MOD
  IN  chksum = rchksum

\* extract_int: the four bytes are stored into tmp at offsets 3,2,1,0 and
\* tmp is then read as the host's int
int_mem(addr) == [k \in 0..3 |-> addr[4 - k]]

\* a 4-byte int in memory, read in the host's byte order (two's complement)
int_of_mem(m, le) ==
  LET b3 == IF le THEN m[3] ELSE m[0]     \* most significant byte
      b2 == IF le THEN m[2] ELSE m[1]
      b1 == IF le THEN m[1] ELSE m[2]
      b0 == IF le THEN m[0] ELSE m[3]
      s3 == IF b3 >= 128 THEN b3 - 256 ELSE b3
  IN  s3 * 16777216 + b2 * 65536 + b1 * 256 + b0

extract_int(addr, le) == int_of_mem(int_mem(addr), le)

\* extract_float: the same four stores into a float tmp
float_mem(addr) == [k \in 0..3 |-> addr[4 - k]]

\* a float is kept as its four bytes, most significant first, as the host
\* reads them from memory
float_of_mem(m, le) ==
  IF le THEN <<m[3], m[2], m[1], m[0]>> ELSE <<m[0], m[1], m[2], m[3]>>

extract_float(addr, le) == float_of_mem(float_mem(addr), le)

\* -------------------------------------------------- device and environment
\* the 4-byte replies the device may send: good and bad checksums, and
\* every value of reply[2] that the mode test can tell apart
Replies ==
  {<<b0, b1, b2, b3>> : b0 \in {1, 255}, b1 \in {0, 1}, b2 \in {0, 1, 2},
                        b3 \in {0, 1}}

\* the plain sum of bytes[lo+1 .. hi]
RECURSIVE SumBytes(_, _, _)
SumBytes(bytes, lo, hi) ==
  IF hi <= lo THEN 0
  ELSE IF hi = lo + 1 THEN bytes[hi]
  ELSE LET mid == (lo + hi) \div 2
       IN  SumBytes(bytes, lo, mid) + SumBytes(bytes, mid, hi)

\* a continuous frame as the device sends it: marker byte, 18 float fields
\* (byte k of the frame holds k, so that every field is different), the timer
\* count, and the big-endian checksum
FrameBody(ticks) ==
  [i \in 1..(DATA_LENGTH - 2) |->
     IF i = 1 THEN 204 ELSE IF i >= 74 THEN ticks[i - 73] ELSE i - 1]

Frame(ticks, good) ==
  LET body == FrameBody(ticks)
      sum  == SumBytes(body, 0, DATA_LENGTH - 2) % USHORT_MOD
      lo   == IF good THEN sum % 256 ELSE (sum + 1) % 256
  IN  body \o <<sum \div 256, lo>>

TickChoices == {<<0, 0, 244, 36>>, <<255, 255, 255, 255>>}
Frames      == {Frame(t, TRUE) : t \in TickChoices}
                 \cup {Frame(<<0, 0, 244, 36>>, FALSE)}

Times  == {(10 + k) * TICKS_PER_SEC : k \in 0..MaxT0}
Delays == {k * TICKS_PER_SEC : k \in 1..MaxDelay}

\* ------------------------------------------------------------------ state
VARIABLES
  pc,           \* position of main()
  status,       \* "running", "startup_error" (return -1), "exited" (return 0),
                \* "aborted" (uncaught exception or crash)
  failStep,     \* the step whose failure made main() return -1
  rosStarted,   \* ros::init and the NodeHandle are done
  rosShutdown,  \* ros::shutdown() has run: ros::ok() and n.ok() are false
  serial_port,  \* "null" (pointer 0), "closed" or "open"
  mode,         \* the global mode command array
  reply,        \* the global reply buffer
  reInitFlag,
  t0,           \* streaming epoch in ticks, -1 before line 245
  delay,        \* the delay parameter, in ticks
  hostIsLE,     \* byte order of the host
  data,         \* the frame buffer
  T,            \* the frame's timer value, in ticks
  framesRead,   \* reads of line 256 that returned
  sigCount,     \* SIGINT deliveries so far
  log,          \* transport operations, checks and signals, in order
  imu,          \* samples handed to imu_pub
  mag,          \* samples handed to mag_pub
  cbuf,         \* input of the checksum codec run
  cres,         \* its result
  ibytes,       \* input of the extract_int run
  ires,         \* its result
  idone,        \* extract_int has run
  wire,         \* bytes that reached the port after the timer reply
  rdpos,        \* how many of them the reads have taken
  firstDrop     \* the frame the link lost a byte of, 0 when none

vars == <<pc, status, failStep, rosStarted, rosShutdown, serial_port, mode,
          reply, reInitFlag, t0, delay, hostIsLE, data, T, framesRead,
          sigCount, log, imu, mag, cbuf, cres, ibytes, ires, idone,
          wire, rdpos, firstDrop>>

intVars   == <<ibytes, ires, idone>>
codecVars == <<cbuf, cres, intVars>>
devVars   == <<wire, rdpos, firstDrop>>
mainVars  == <<pc, status, failStep, rosStarted, rosShutdown, serial_port,
               mode, reply, reInitFlag, t0, delay, hostIsLE, data, T,
               framesRead, sigCount, log, imu, mag, devVars>>

\* an entry of the log; port is the state of the handle the call is made on
Ev(op, at, arg, who, ok) ==
  [op |-> op, at |-> at, arg |-> arg, who |-> who, ok |-> ok,
   port |-> serial_port]

MainInit ==
  /\ pc = "start"
  /\ status = "running"
  /\ failStep = "none"
  /\ rosStarted = FALSE
  /\ rosShutdown = FALSE
  /\ serial_port = "null"
  /\ mode = mode0
  /\ reply = [i \in 1..REPLY_LENGTH |-> 0]
  /\ reInitFlag = FALSE
  /\ t0 = -1
  /\ T = 0
  /\ data = [i \in 1..DATA_LENGTH |-> 0]
  /\ framesRead = 0
  /\ sigCount = 0
  /\ log = <<>>
  /\ imu = <<>>
  /\ mag = <<>>
  /\ wire = <<>>
  /\ rdpos = 0
  /\ firstDrop = 0

IntIdle ==
  /\ ibytes = <<0, 0, 0, 0>>
  /\ ires = 0
  /\ idone = FALSE

Init ==
  /\ MainInit
  /\ delay \in Delays
  /\ hostIsLE \in BOOLEAN
  /\ cbuf = <<0, 0>>
  /\ cres = "idle"
  /\ IntIdle

\* ------------------------------------------------------ transport helpers
Running == status = "running"

\* boost::asio::write on the port: it throws when the port is not open or
\* the transport reports a failure, and nothing in main() catches it
transport_write(at, cmd, next) ==
  \E io \in BOOLEAN :
    LET good == io /\ serial_port = "open" IN
    /\ log' = Append(log, Ev("write", at, cmd, "main", good))
    /\ pc' = IF good THEN next ELSE pc
    /\ status' = IF good THEN status ELSE "aborted"

\* boost::asio::read returning n bytes, or throwing
transport_read(at, n, next, delivered) ==
  \E io \in BOOLEAN :
    LET good == io /\ serial_port = "open" /\ delivered IN
    /\ io \/ serial_port # "open" \/ delivered
    /\ log' = Append(log, Ev("read", at, <<n>>, "main", good))
    /\ pc' = IF good THEN next ELSE pc
    /\ status' = IF good THEN status ELSE "aborted"

ReadGood == status' = "running"

\* if (serial_port->is_open()) serial_port->close();
close_if_open(at) ==
  IF serial_port = "open" THEN <<Ev("close", at, <<>>, "main", TRUE)>> ELSE <<>>

\* serial_port->open(port) in its try block, then the is_open() test
open_port(at, name, next) ==
  \E ok \in BOOLEAN :
    LET good == ok /\ serial_port = "closed" IN
    /\ log' = Append(log, Ev("open", at, <<>>, "main", good))
    /\ serial_port' = IF good THEN "open" ELSE serial_port
    /\ pc' = IF good THEN next ELSE pc
    /\ status' = IF good THEN status ELSE "startup_error"
    /\ failStep' = IF good THEN failStep ELSE name

\* the four set_option calls; they throw on a port that is not open
set_options(at, next) ==
  \E io \in BOOLEAN :
    LET good == io /\ serial_port = "open" IN
    /\ log' = Append(log, Ev("setopt", at, <<>>, "main", good))
    /\ pc' = IF good THEN next ELSE pc
    /\ status' = IF good THEN status ELSE "aborted"

\* a reply check whose failure is fatal: close the port, return -1
fatal_check(at, name, next) ==
  LET good == validate_checksum(reply, REPLY_LENGTH) IN
  /\ log' = Append(log, Ev("check", at, <<>>, "main", good))
            \o (IF good THEN <<>> ELSE close_if_open(at))
  /\ serial_port' = IF good \/ serial_port # "open" THEN serial_port ELSE "closed"
  /\ pc' = IF good THEN next ELSE pc
  /\ status' = IF good THEN status ELSE "startup_error"
  /\ failStep' = IF good THEN failStep ELSE name

\* -------------------------------------------------------- main: start-up
\* lines 87-89
start ==
  /\ Running /\ pc = "start"
  /\ rosStarted' = TRUE
  /\ pc' = "param"
  /\ UNCHANGED <<status, failStep, rosShutdown, serial_port, mode, reply,
                 reInitFlag, t0, delay, hostIsLE, data, T, framesRead,
                 sigCount, log, imu, mag, codecVars, devVars>>

\* lines 93-100
param ==
  /\ Running /\ pc = "param"
  /\ \E has \in BOOLEAN :
       /\ pc' = IF has THEN "create" ELSE pc
       /\ status' = IF has THEN status ELSE "startup_error"
       /\ failStep' = IF has THEN failStep ELSE "param"
  /\ UNCHANGED <<rosStarted, rosShutdown, serial_port, mode, reply,
                 reInitFlag, t0, delay, hostIsLE, data, T, framesRead,
                 sigCount, log, imu, mag, codecVars, devVars>>

\* lines 102-103
create ==
  /\ Running /\ pc = "create"
  /\ serial_port' = "closed"
  /\ pc' = "open"
  /\ UNCHANGED <<status, failStep, rosStarted, rosShutdown, mode, reply,
                 reInitFlag, t0, delay, hostIsLE, data, T, framesRead,
                 sigCount, log, imu, mag, codecVars, devVars>>

\* lines 105-121
open ==
  /\ Running /\ pc = "open"
  /\ open_port("open", "open", "options")
  /\ UNCHANGED <<rosStarted, rosShutdown, mode, reply, reInitFlag, t0, delay,
                 hostIsLE, data, T, framesRead, sigCount, imu, mag, codecVars, devVars>>

\* lines 123-142
options ==
  /\ Running /\ pc = "options"
  /\ set_options("options", "stop_write")
  /\ UNCHANGED <<failStep, rosStarted, rosShutdown, serial_port, mode, reply,
                 reInitFlag, t0, delay, hostIsLE, data, T, framesRead,
                 sigCount, imu, mag, codecVars, devVars>>

\* ------------------------------------------------------- main: handshake
\* line 145
stop_write ==
  /\ Running /\ pc = "stop_write"
  /\ transport_write("stop_write", stop, "stop_sleep")
  /\ UNCHANGED <<failStep, rosStarted, rosShutdown, serial_port, mode, reply,
                 reInitFlag, t0, delay, hostIsLE, data, T, framesRead,
                 sigCount, imu, mag, codecVars, devVars>>

\* lines 146-147
stop_sleep ==
  /\ Running /\ pc = "stop_sleep"
  /\ log' = Append(log, Ev("sleep", "stop_sleep", <<>>, "main", TRUE))
  /\ pc' = "mode_write"
  /\ UNCHANGED <<status, failStep, rosStarted, rosShutdown, serial_port, mode,
                 reply, reInitFlag, t0, delay, hostIsLE, data, T, framesRead,
                 sigCount, imu, mag, codecVars, devVars>>

\* lines 150-151
mode_write ==
  /\ Running /\ pc = "mode_write"
  /\ reInitFlag' = FALSE
  /\ transport_write("mode_write", mode, "mode_wait")
  /\ UNCHANGED <<failStep, rosStarted, rosShutdown, serial_port, mode, reply,
                 t0, delay, hostIsLE, data, T, framesRead, sigCount, imu, mag,
                 codecVars, devVars>>

\* line 152
mode_wait ==
  /\ Running /\ pc = "mode_wait"
  /\ transport_read("mode_wait", REPLY_LENGTH, "mode_check", TRUE)
  /\ IF ReadGood THEN reply' \in Replies ELSE reply' = reply
  /\ UNCHANGED <<failStep, rosStarted, rosShutdown, serial_port, mode,
                 reInitFlag, t0, delay, hostIsLE, data, T, framesRead,
                 sigCount, imu, mag, codecVars, devVars>>

\* lines 153-161: a bad reply closes the port and selects the re-init path
mode_check ==
  /\ Running /\ pc = "mode_check"
  /\ LET good == validate_checksum(reply, REPLY_LENGTH) IN
       /\ log' = Append(log, Ev("check", "mode_check", <<>>, "main", good))
                 \o (IF good THEN <<>> ELSE close_if_open("mode_check"))
       /\ serial_port' = IF good \/ serial_port # "open"
                           THEN serial_port ELSE "closed"
       /\ reInitFlag' = IF good THEN reInitFlag ELSE TRUE
       /\ pc' = IF good THEN "active_write" ELSE "reinit_sleep"
  /\ UNCHANGED <<status, failStep, rosStarted, rosShutdown, mode, reply, t0,
                 delay, hostIsLE, data, T, framesRead, sigCount, imu, mag,
                 codecVars, devVars>>

\* lines 163-164
reinit_sleep ==
  /\ Running /\ pc = "reinit_sleep"
  /\ log' = Append(log, Ev("sleep", "reinit_sleep", <<>>, "main", TRUE))
  /\ pc' = "reinit_open"
  /\ UNCHANGED <<status, failStep, rosStarted, rosShutdown, serial_port, mode,
                 reply, reInitFlag, t0, delay, hostIsLE, data, T, framesRead,
                 sigCount, imu, mag, codecVars, devVars>>

\* lines 165-180
reinit_open ==
  /\ Running /\ pc = "reinit_open"
  /\ open_port("reinit_open", "reopen", "reinit_options")
  /\ UNCHANGED <<rosStarted, rosShutdown, mode, reply, reInitFlag, t0, delay,
                 hostIsLE, data, T, framesRead, sigCount, imu, mag, codecVars, devVars>>

\* lines 181-184
reinit_options ==
  /\ Running /\ pc = "reinit_options"
  /\ set_options("reinit_options", "remode_write")
  /\ UNCHANGED <<failStep, rosStarted, rosShutdown, serial_port, mode, reply,
                 reInitFlag, t0, delay, hostIsLE, data, T, framesRead,
                 sigCount, imu, mag, codecVars, devVars>>

\* line 186
remode_write ==
  /\ Running /\ pc = "remode_write"
  /\ transport_write("remode_write", mode, "remode_wait")
  /\ UNCHANGED <<failStep, rosStarted, rosShutdown, serial_port, mode, reply,
                 reInitFlag, t0, delay, hostIsLE, data, T, framesRead,
                 sigCount, imu, mag, codecVars, devVars>>

\* line 187
remode_wait ==
  /\ Running /\ pc = "remode_wait"
  /\ transport_read("remode_wait", REPLY_LENGTH, "remode_check", TRUE)
  /\ IF ReadGood THEN reply' \in Replies ELSE reply' = reply
  /\ UNCHANGED <<failStep, rosStarted, rosShutdown, serial_port, mode,
                 reInitFlag, t0, delay, hostIsLE, data, T, framesRead,
                 sigCount, imu, mag, codecVars, devVars>>

\* the second mode check with its test inverted: a good reply is fatal
remode_check_inv ==
  /\ Running /\ pc = "remode_check"
  /\ LET good == validate_checksum(reply, REPLY_LENGTH) IN
       /\ log' = Append(log, Ev("check", "remode_check", <<>>, "main", good))
                 \o (IF good THEN close_if_open("remode_check") ELSE <<>>)
       /\ serial_port' = IF good /\ serial_port = "open"
                           THEN "closed" ELSE serial_port
       /\ pc' = IF good THEN pc ELSE "active_write"
       /\ status' = IF good THEN "startup_error" ELSE status
       /\ failStep' = IF good THEN "remode" ELSE failStep
  /\ UNCHANGED <<rosStarted, rosShutdown, mode, reply, reInitFlag, t0, delay,
                 hostIsLE, data, T, framesRead, sigCount, imu, mag, codecVars, devVars>>

\* the second mode check retrying again instead of returning
remode_check_retry ==
  /\ Running /\ pc = "remode_check"
  /\ LET good == validate_checksum(reply, REPLY_LENGTH) IN
       /\ log' = Append(log, Ev("check", "remode_check", <<>>, "main", good))
                 \o (IF good THEN <<>> ELSE close_if_open("remode_check"))
       /\ serial_port' = IF good \/ serial_port # "open"
                           THEN serial_port ELSE "closed"
       /\ pc' = IF good THEN "active_write" ELSE "reinit_sleep"
  /\ UNCHANGED <<status, failStep>>
  /\ UNCHANGED <<rosStarted, rosShutdown, mode, reply, reInitFlag, t0, delay,
                 hostIsLE, data, T, framesRead, sigCount, imu, mag, codecVars, devVars>>

\* lines 188-194
remode_check ==
  /\ Running /\ pc = "remode_check"
  /\ fatal_check("remode_check", "remode", "active_write")
  /\ UNCHANGED <<rosStarted, rosShutdown, mode, reply, reInitFlag, t0, delay,
                 hostIsLE, data, T, framesRead, sigCount, imu, mag, codecVars, devVars>>

\* the mode test with == in place of !=
active_write_eq ==
  /\ Running /\ pc = "active_write"
  /\ IF reply[3] = 1
       THEN /\ mode' = [mode EXCEPT ![4] = 1]
            /\ transport_write("active_write", mode', "active_wait")
       ELSE /\ pc' = "preset_write"
            /\ UNCHANGED <<mode, status, log>>
  /\ UNCHANGED <<failStep, rosStarted, rosShutdown, serial_port, reply,
                 reInitFlag, t0, delay, hostIsLE, data, T, framesRead,
                 sigCount, imu, mag, codecVars, devVars>>

\* lines 197-201: the set-active command is sent unless reply[2] is 01
active_write ==
  /\ Running /\ pc = "active_write"
  /\ IF reply[3] # 1
       THEN /\ mode' = [mode EXCEPT ![4] = 1]
            /\ transport_write("active_write", mode', "active_wait")
       ELSE /\ pc' = "preset_write"
            /\ UNCHANGED <<mode, status, log>>
  /\ UNCHANGED <<failStep, rosStarted, rosShutdown, serial_port, reply,
                 reInitFlag, t0, delay, hostIsLE, data, T, framesRead,
                 sigCount, imu, mag, codecVars, devVars>>

\* line 202
active_wait ==
  /\ Running /\ pc = "active_wait"
  /\ transport_read("active_wait", REPLY_LENGTH, "active_check", TRUE)
  /\ IF ReadGood THEN reply' \in Replies ELSE reply' = reply
  /\ UNCHANGED <<failStep, rosStarted, rosShutdown, serial_port, mode,
                 reInitFlag, t0, delay, hostIsLE, data, T, framesRead,
                 sigCount, imu, mag, codecVars, devVars>>

\* lines 203-209
active_check ==
  /\ Running /\ pc = "active_check"
  /\ fatal_check("active_check", "active", "preset_write")
  /\ UNCHANGED <<rosStarted, rosShutdown, mode, reply, reInitFlag, t0, delay,
                 hostIsLE, data, T, framesRead, sigCount, imu, mag, codecVars, devVars>>

\* lines 214-215
preset_write ==
  /\ Running /\ pc = "preset_write"
  /\ transport_write("preset_write", preset, "preset_wait")
  /\ UNCHANGED <<failStep, rosStarted, rosShutdown, serial_port, mode, reply,
                 reInitFlag, t0, delay, hostIsLE, data, T, framesRead,
                 sigCount, imu, mag, codecVars, devVars>>

\* line 217
preset_wait ==
  /\ Running /\ pc = "preset_wait"
  /\ transport_read("preset_wait", REPLY_LENGTH, "preset_check", TRUE)
  /\ IF ReadGood THEN reply' \in Replies ELSE reply' = reply
  /\ UNCHANGED <<failStep, rosStarted, rosShutdown, serial_port, mode,
                 reInitFlag, t0, delay, hostIsLE, data, T, framesRead,
                 sigCount, imu, mag, codecVars, devVars>>

\* the preset check without its return: the handshake goes on
preset_check_noreturn ==
  /\ Running /\ pc = "preset_check"
  /\ LET good == validate_checksum(reply, REPLY_LENGTH) IN
       /\ log' = Append(log, Ev("check", "preset_check", <<>>, "main", good))
                 \o (IF good THEN <<>> ELSE close_if_open("preset_check"))
       /\ serial_port' = IF good \/ serial_port # "open"
                           THEN serial_port ELSE "closed"
       /\ pc' = "cont_write"
  /\ UNCHANGED <<status, failStep>>
  /\ UNCHANGED <<rosStarted, rosShutdown, mode, reply, reInitFlag, t0, delay,
                 hostIsLE, data, T, framesRead, sigCount, imu, mag, codecVars, devVars>>

\* lines 218-224
preset_check ==
  /\ Running /\ pc = "preset_check"
  /\ fatal_check("preset_check", "preset", "cont_write")
  /\ UNCHANGED <<rosStarted, rosShutdown, mode, reply, reInitFlag, t0, delay,
                 hostIsLE, data, T, framesRead, sigCount, imu, mag, codecVars, devVars>>

\* the set-continuous command sent without mode[3] = 02
cont_write_stale ==
  /\ Running /\ pc = "cont_write"
  /\ transport_write("cont_write", mode, "cont_wait")
  /\ UNCHANGED <<failStep, rosStarted, rosShutdown, serial_port, mode, reply,
                 reInitFlag, t0, delay, hostIsLE, data, T, framesRead,
                 sigCount, imu, mag, codecVars, devVars>>

\* lines 227-228
cont_write ==
  /\ Running /\ pc = "cont_write"
  /\ mode' = [mode EXCEPT ![4] = 2]
  /\ transport_write("cont_write", mode', "cont_wait")
  /\ UNCHANGED <<failStep, rosStarted, rosShutdown, serial_port, reply,
                 reInitFlag, t0, delay, hostIsLE, data, T, framesRead,
                 sigCount, imu, mag, codecVars, devVars>>

\* line 229
cont_wait ==
  /\ Running /\ pc = "cont_wait"
  /\ transport_read("cont_wait", REPLY_LENGTH, "cont_check", TRUE)
  /\ IF ReadGood THEN reply' \in Replies ELSE reply' = reply
  /\ UNCHANGED <<failStep, rosStarted, rosShutdown, serial_port, mode,
                 reInitFlag, t0, delay, hostIsLE, data, T, framesRead,
                 sigCount, imu, mag, codecVars, devVars>>

\* the set-continuous check returning without closing the port
cont_check_noclose ==
  /\ Running /\ pc = "cont_check"
  /\ LET good == validate_checksum(reply, REPLY_LENGTH) IN
       /\ log' = Append(log, Ev("check", "cont_check", <<>>, "main", good))
       /\ pc' = IF good THEN "timer_write" ELSE pc
       /\ status' = IF good THEN status ELSE "startup_error"
       /\ failStep' = IF good THEN failStep ELSE "cont"
  /\ UNCHANGED serial_port
  /\ UNCHANGED <<rosStarted, rosShutdown, mode, reply, reInitFlag, t0, delay,
                 hostIsLE, data, T, framesRead, sigCount, imu, mag, codecVars, devVars>>

\* the set-continuous exchange repeated once after a good reply
cont_check_redo ==
  /\ Running /\ pc = "cont_check"
  /\ fatal_check("cont_check", "cont",
                 IF Cardinality({i \in DOMAIN log : log[i].at = "cont_write"}) < 2
                   THEN "cont_write" ELSE "timer_write")
  /\ UNCHANGED <<rosStarted, rosShutdown, mode, reply, reInitFlag, t0, delay,
                 hostIsLE, data, T, framesRead, sigCount, imu, mag,
                 codecVars, devVars>>

\* lines 230-236
cont_check ==
  /\ Running /\ pc = "cont_check"
  /\ fatal_check("cont_check", "cont", "timer_write")
  /\ UNCHANGED <<rosStarted, rosShutdown, mode, reply, reInitFlag, t0, delay,
                 hostIsLE, data, T, framesRead, sigCount, imu, mag, codecVars, devVars>>

\* the timer reset written, its reply never read
timer_write_noread ==
  /\ Running /\ pc = "timer_write"
  /\ transport_write("timer_write", set_timer, "set_t0")
  /\ UNCHANGED <<failStep, rosStarted, rosShutdown, serial_port, mode, reply,
                 reInitFlag, t0, delay, hostIsLE, data, T, framesRead,
                 sigCount, imu, mag, codecVars, devVars>>

\* lines 241-243
timer_write ==
  /\ Running /\ pc = "timer_write"
  /\ transport_write("timer_write", set_timer, "timer_wait")
  /\ UNCHANGED <<failStep, rosStarted, rosShutdown, serial_port, mode, reply,
                 reInitFlag, t0, delay, hostIsLE, data, T, framesRead,
                 sigCount, imu, mag, codecVars, devVars>>

\* line 244: the 7-byte reply goes to reply_timer and is never looked at
timer_wait ==
  /\ Running /\ pc = "timer_wait"
  /\ transport_read("timer_wait", TIMER_REPLY_LENGTH, "set_t0", TRUE)
  /\ UNCHANGED <<failStep, rosStarted, rosShutdown, serial_port, mode, reply,
                 reInitFlag, t0, delay, hostIsLE, data, T, framesRead,
                 sigCount, imu, mag, codecVars, devVars>>

\* lines 245-252: the epoch is taken; streaming begins
set_t0 ==
  /\ Running /\ pc = "set_t0"
  /\ t0' \in Times
  /\ pc' = "loop_head"
  /\ UNCHANGED <<status, failStep, rosStarted, rosShutdown, serial_port, mode,
                 reply, reInitFlag, delay, hostIsLE, data, T, framesRead,
                 sigCount, log, imu, mag, codecVars, devVars>>

\* ----------------------------------------------------- main: stream loop
\* line 253, and the call of the blocking read at line 256
loop_head ==
  /\ Running /\ pc = "loop_head"
  /\ pc' = IF rosStarted /\ ~rosShutdown THEN "frame_wait" ELSE "final_stop"
  /\ UNCHANGED <<status, failStep, rosStarted, rosShutdown, serial_port, mode,
                 reply, reInitFlag, t0, delay, hostIsLE, data, T, framesRead,
                 sigCount, log, imu, mag, codecVars, devVars>>

\* the frame f as it arrives when the link loses its byte p
DropByte(f, p) == [i \in 1..(Len(f) - 1) |-> IF i < p THEN f[i] ELSE f[i + 1]]

\* the byte the link loses, and the frame it loses it of
DropAt == 40

LossyFrame == Frame(<<0, 0, 244, 36>>, TRUE)

\* frames the device has sent
Sent == (Len(wire) + (IF firstDrop = 0 THEN 0 ELSE 1)) \div DATA_LENGTH

\* the device in continuous mode sends the next frame while main() waits in
\* the read of line 256; the link loses at most one byte in a run
device_send ==
  /\ Running /\ pc = "frame_wait"
  /\ framesRead < MaxFrames
  /\ Len(wire) - rdpos < DATA_LENGTH
  /\ \E f \in Frames, lose \in BOOLEAN :
       /\ lose => firstDrop = 0 /\ f = LossyFrame
       /\ wire' = wire \o (IF lose THEN DropByte(f, DropAt) ELSE f)
       /\ firstDrop' = IF lose THEN Sent + 1 ELSE firstDrop
  /\ UNCHANGED <<pc, status, failStep, rosStarted, rosShutdown, serial_port,
                 mode, reply, reInitFlag, t0, delay, hostIsLE, data, T,
                 framesRead, sigCount, log, imu, mag, rdpos, codecVars>>

\* line 256: the read returns once 79 bytes have arrived, and takes them
frame_wait ==
  /\ Running /\ pc = "frame_wait"
  /\ transport_read("frame_wait", DATA_LENGTH, "frame_check",
                    Len(wire) - rdpos >= DATA_LENGTH)
  /\ IF ReadGood
       THEN /\ data' = SubSeq(wire, rdpos + 1, rdpos + DATA_LENGTH)
            /\ rdpos' = rdpos + DATA_LENGTH
            /\ framesRead' = framesRead + 1
       ELSE UNCHANGED <<data, rdpos, framesRead>>
  /\ UNCHANGED <<failStep, rosStarted, rosShutdown, serial_port, mode, reply,
                 reInitFlag, t0, delay, hostIsLE, T, sigCount, imu, mag,
                 wire, firstDrop, codecVars>>

\* the frame check skipping one byte after a bad frame, to find the header
frame_check_resync ==
  /\ Running /\ pc = "frame_check"
  /\ LET good == validate_checksum(data, DATA_LENGTH) IN
       /\ log' = Append(log, Ev("check", "frame_check", <<>>, "main", good))
       /\ pc' = IF good THEN "pub_imu" ELSE "loop_head"
       /\ rdpos' = IF good THEN rdpos ELSE rdpos - (DATA_LENGTH - 1)
  /\ UNCHANGED <<status, failStep, rosStarted, rosShutdown, serial_port, mode,
                 reply, reInitFlag, t0, delay, hostIsLE, data, T, framesRead,
                 sigCount, imu, mag, wire, firstDrop, codecVars>>

\* the frame check leaving the loop (break) on a bad frame
frame_check_break ==
  /\ Running /\ pc = "frame_check"
  /\ LET good == validate_checksum(data, DATA_LENGTH) IN
       /\ log' = Append(log, Ev("check", "frame_check", <<>>, "main", good))
       /\ pc' = IF good THEN "pub_imu" ELSE "final_stop"
  /\ UNCHANGED <<status, failStep, rosStarted, rosShutdown, serial_port, mode,
                 reply, reInitFlag, t0, delay, hostIsLE, data, T, framesRead,
                 sigCount, imu, mag, codecVars, devVars>>

\* lines 257-260: a bad frame is reported and skipped
frame_check ==
  /\ Running /\ pc = "frame_check"
  /\ LET good == validate_checksum(data, DATA_LENGTH) IN
       /\ log' = Append(log, Ev("check", "frame_check", <<>>, "main", good))
       /\ pc' = IF good THEN "pub_imu" ELSE "loop_head"
  /\ UNCHANGED <<status, failStep, rosStarted, rosShutdown, serial_port, mode,
                 reply, reInitFlag, t0, delay, hostIsLE, data, T, framesRead,
                 sigCount, imu, mag, codecVars, devVars>>

\* T = extract_int(&(data[k])) / 62500.0 with k = 73, kept in ticks
frame_T(bytes, le) ==
  extract_int(<<bytes[74], bytes[75], bytes[76], bytes[77]>>, le)

\* &(data[k]): the four bytes from C index k on
field4(bytes, k) == <<bytes[k + 1], bytes[k + 2], bytes[k + 3], bytes[k + 4]>>

\* lines 268-273: three floats from C index k0 on (k advances by 4)
decode_vec(bytes, k0, le) ==
  [i \in 0..2 |-> extract_float(field4(bytes, k0 + 4 * i), le)]

\* lines 274-275: M[0..8], read after accel, ang_vel and mag, so from k = 37
decode_M(bytes, le) ==
  [i \in 0..8 |-> extract_float(field4(bytes, 37 + 4 * i), le)]

\* R filled row by row from M, without the transposition
rotation_R_plain(M) == [i \in 0..2 |-> [j \in 0..2 |-> M[i * 3 + j]]]

\* lines 287-290: R(i,j) = M[j*3+i]
rotation_R(M) == [i \in 0..2 |-> [j \in 0..2 |-> M[j * 3 + i]]]

\* lines 278-296: the Imu message; R stands for the quaternion built from it,
\* and each acceleration is the decoded float times GRAVITY_CONSTANT
imu_msg(bytes, le, stamp) ==
  [stamp |-> stamp,
   angular_velocity |-> decode_vec(bytes, 13, le),
   linear_acceleration |->
     [i \in 0..2 |-> <<decode_vec(bytes, 1, le)[i], GRAVITY_MILLI>>],
   R |-> rotation_R(decode_M(bytes, le))]

\* lines 300-304: the MagneticField message
mag_msg(bytes, le, stamp) ==
  [stamp |-> stamp, magnetic_field |-> decode_vec(bytes, 25, le)]

\* lines 262-298: decode, stamp and publish the Imu message
pub_imu ==
  /\ Running /\ pc = "pub_imu"
  /\ T' = frame_T(data, hostIsLE)
  /\ imu' = Append(imu, imu_msg(data, hostIsLE, t0 + T' - delay))
  /\ pc' = "pub_mag"
  /\ UNCHANGED <<status, failStep, rosStarted, rosShutdown, serial_port, mode,
                 reply, reInitFlag, t0, delay, hostIsLE, data, framesRead,
                 sigCount, log, mag, codecVars, devVars>>

\* the Mag stamp computed without the delay
pub_mag_nodelay ==
  /\ Running /\ pc = "pub_mag"
  /\ mag' = Append(mag, mag_msg(data, hostIsLE, t0 + T))
  /\ pc' = "loop_head"
  /\ UNCHANGED <<status, failStep, rosStarted, rosShutdown, serial_port, mode,
                 reply, reInitFlag, t0, delay, hostIsLE, data, T, framesRead,
                 sigCount, log, imu, codecVars, devVars>>

\* lines 300-306: stamp and publish the MagneticField message
pub_mag ==
  /\ Running /\ pc = "pub_mag"
  /\ mag' = Append(mag, mag_msg(data, hostIsLE, t0 + T - delay))
  /\ pc' = "loop_head"
  /\ UNCHANGED <<status, failStep, rosStarted, rosShutdown, serial_port, mode,
                 reply, reInitFlag, t0, delay, hostIsLE, data, T, framesRead,
                 sigCount, log, imu, codecVars, devVars>>

\* line 311
final_stop ==
  /\ Running /\ pc = "final_stop"
  /\ transport_write("final_stop", stop, "final_sleep")
  /\ UNCHANGED <<failStep, rosStarted, rosShutdown, serial_port, mode, reply,
                 reInitFlag, t0, delay, hostIsLE, data, T, framesRead,
                 sigCount, imu, mag, codecVars, devVars>>

\* lines 312-313
final_sleep ==
  /\ Running /\ pc = "final_sleep"
  /\ log' = Append(log, Ev("sleep", "final_sleep", <<>>, "main", TRUE))
  /\ pc' = "final_close"
  /\ UNCHANGED <<status, failStep, rosStarted, rosShutdown, serial_port, mode,
                 reply, reInitFlag, t0, delay, hostIsLE, data, T, framesRead,
                 sigCount, imu, mag, codecVars, devVars>>

\* lines 314-316
final_close ==
  /\ Running /\ pc = "final_close"
  /\ log' = Append(log, Ev("close", "final_close", <<>>, "main", TRUE))
  /\ serial_port' = "closed"
  /\ status' = "exited"
  /\ UNCHANGED <<pc, failStep, rosStarted, rosShutdown, mode, reply,
                 reInitFlag, t0, delay, hostIsLE, data, T, framesRead,
                 sigCount, imu, mag, codecVars, devVars>>

\* ---------------------------------------------------------- SIGINT handler
\* lines 28-37.  The handler runs on the thread of main(), at any point of
\* main(), and runs to its end before main() resumes.
signal_handler ==
  /\ Running /\ sigCount < MaxSignals
  /\ sigCount' = sigCount + 1
  /\ LET sig == Ev("signal", pc, <<>>, "handler", TRUE)
         wr(ok) == Ev("write", pc, stop, "handler", ok)
     IN
     IF ~(rosStarted /\ ~rosShutdown)
       THEN UNCHANGED <<log, status, serial_port, rosShutdown>>   \* guard false
       ELSE
         \/ /\ serial_port = "null"     \* *serial_port with serial_port == 0
            /\ log' = log \o <<sig, wr(FALSE)>>
            /\ \/ status' = "aborted" /\ UNCHANGED rosShutdown
               \/ status' = status /\ rosShutdown' = TRUE
            /\ UNCHANGED serial_port
         \/ /\ serial_port = "closed"   \* the write throws inside the handler
            /\ log' = log \o <<sig, wr(FALSE)>>
            /\ status' = "aborted"
            /\ UNCHANGED <<serial_port, rosShutdown>>
         \/ /\ serial_port = "open"
            /\ \E io \in BOOLEAN :
                 IF io
                   THEN /\ log' = log \o <<sig, wr(TRUE),
                                   Ev("sleep", pc, <<>>, "handler", TRUE),
                                   Ev("close", pc, <<>>, "handler", TRUE)>>
                        /\ serial_port' = "closed"
                        /\ rosShutdown' = TRUE
                        /\ status' = status
                   ELSE /\ log' = log \o <<sig, wr(FALSE)>>
                        /\ status' = "aborted"
                        /\ UNCHANGED <<serial_port, rosShutdown>>
  /\ UNCHANGED <<pc, failStep, rosStarted, mode, reply, reInitFlag, t0, delay,
                 hostIsLE, data, T, framesRead, imu, mag, codecVars, devVars>>

\* a shutdown requested through ROS itself: n.ok() of line 253 turns false
ros_shutdown ==
  /\ Running /\ rosStarted /\ ~rosShutdown
  /\ rosShutdown' = TRUE
  /\ UNCHANGED <<pc, status, failStep, rosStarted, serial_port, mode, reply,
                 reInitFlag, t0, delay, hostIsLE, data, T, framesRead,
                 sigCount, log, imu, mag, codecVars, devVars>>

Next ==
  \/ start \/ param \/ create \/ open \/ options
  \/ stop_write \/ stop_sleep
  \/ mode_write \/ mode_wait \/ mode_check
  \/ reinit_sleep \/ reinit_open \/ reinit_options
  \/ remode_write \/ remode_wait \/ remode_check
  \/ active_write \/ active_wait \/ active_check
  \/ preset_write \/ preset_wait \/ preset_check
  \/ cont_write \/ cont_wait \/ cont_check
  \/ timer_write \/ timer_wait \/ set_t0
  \/ loop_head \/ device_send \/ frame_wait \/ frame_check \/ pub_imu \/ pub_mag
  \/ final_stop \/ final_sleep \/ final_close
  \/ signal_handler \/ ros_shutdown

Spec == Init /\ [][Next]_vars

\* ------------------------------------------------ the checksum codec alone
ChkBytes == {0, 1, 255}

ShortBufs == UNION {[1..n -> ChkBytes] : n \in 2..MaxLen}

\* long buffers of 255s: the 16-bit sum wraps from 258 summed bytes on
LongBuf(n, hi, lo) ==
  [i \in 1..n |-> IF i <= n - 2 THEN 255 ELSE IF i = n - 1 THEN hi ELSE lo]

LongBufs ==
  {LongBuf(n, hi, lo) : n \in 259..MaxLong, hi \in {0, 1, 255},
                        lo \in {253, 254, 255}}

ChkBufs == ShortBufs \cup LongBufs

CodecInit ==
  /\ MainInit
  /\ delay = 0
  /\ hostIsLE = TRUE
  /\ cbuf \in ChkBufs
  /\ cres = "idle"
  /\ IntIdle

run_validate ==
  /\ cres = "idle"
  /\ cres' = IF validate_checksum(cbuf, Len(cbuf)) THEN "pass" ELSE "fail"
  /\ UNCHANGED <<cbuf, intVars, mainVars>>

CodecNext == run_validate

CodecSpec == CodecInit /\ [][CodecNext]_vars

\* ---------------------------------------------------- extract_int alone
IntBytes == {0, 1, 127, 128, 255}

IntInit ==
  /\ MainInit
  /\ delay = 0
  /\ hostIsLE \in BOOLEAN
  /\ cbuf = <<0, 0>>
  /\ cres = "idle"
  /\ ibytes \in [1..4 -> IntBytes]
  /\ ires = 0
  /\ idone = FALSE

run_extract_int ==
  /\ ~idone
  /\ ires' = extract_int(ibytes, hostIsLE)
  /\ idone' = TRUE
  /\ UNCHANGED <<ibytes, cbuf, cres, mainVars>>

IntNext == run_extract_int

IntSpec == IntInit /\ [][IntNext]_vars

\* ------------------------------------- the start-up and handshake alone
\* main() from its first line to t0 = ros::Time::now(), with no signal: one
\* thread that runs each statement it reaches, every blocking call returning
\* or throwing
HandshakeNext ==
  \/ start \/ param \/ create \/ open \/ options
  \/ stop_write \/ stop_sleep
  \/ mode_write \/ mode_wait \/ mode_check
  \/ reinit_sleep \/ reinit_open \/ reinit_options
  \/ remode_write \/ remode_wait \/ remode_check
  \/ active_write \/ active_wait \/ active_check
  \/ preset_write \/ preset_wait \/ preset_check
  \/ cont_write \/ cont_wait \/ cont_check
  \/ timer_write \/ timer_wait \/ set_t0

HandshakeSpec == Init /\ [][HandshakeNext]_vars /\ WF_vars(HandshakeNext)

\* ------------------------------------------------------------- properties
Idx == DOMAIN log

\* line 247 has been reached
Streaming == t0 # -1

HandshakeOver == Streaming \/ status # "running"

IsCheck(i, at) == log[i].op = "check" /\ log[i].at = at

IoOps == {"write", "read", "setopt"}

NoIoFailure == \A i \in Idx : log[i].op \in IoOps => log[i].ok

FatalChecks == {"active_check", "preset_check", "cont_check"}

LaterChecks == {"remode_check"} \cup FatalChecks

FailName(at) ==
  CASE at = "remode_check" -> "remode"
    [] at = "active_check" -> "active"
    [] at = "preset_check" -> "preset"
    [] at = "cont_check"   -> "cont"

NoWriteAfter(i) == \A j \in Idx : j > i => log[j].op # "write"

\* C1: for every buffer b of length n >= 2, validate_checksum(b, n) is true
\* exactly when b[n-2]*256 + b[n-1] equals the sum of b[0..n-3] modulo 65536
C1_ChecksumIff ==
  cres # "idle" =>
    LET n == Len(cbuf) IN
    (cres = "pass") <=>
      (cbuf[n - 1] * 256 + cbuf[n] = SumBytes(cbuf, 0, n - 2) % 65536)

\* a passing buffer whose byte sum exceeds 16 bits
C1_Witness ==
  cres = "pass" /\ SumBytes(cbuf, 0, Len(cbuf) - 2) >= 65536

\* C2: when the first mode reply fails validation, the port reopens and every
\* later handshake reply passes (and no transport call fails), the finished
\* handshake has reached Streaming and has not failed
C2_ReinitRecovers ==
  ( /\ HandshakeOver
    /\ \E i \in Idx : IsCheck(i, "mode_check") /\ ~log[i].ok
    /\ \E i \in Idx : log[i].op = "open" /\ log[i].at = "reinit_open" /\ log[i].ok
    /\ \A i \in Idx : (log[i].op = "check" /\ log[i].at \in LaterChecks) => log[i].ok
    /\ NoIoFailure )
  => (Streaming /\ failStep = "none")

C2_Witness ==
  /\ Streaming /\ reInitFlag /\ NoIoFailure
  /\ \E i \in Idx : IsCheck(i, "remode_check") /\ log[i].ok

\* C3: the mode query D4 A3 47 00 is written at most twice, and a failed
\* check of the second reply ends the run in Failed with no write after it
C3_ReinitOnce ==
  /\ Cardinality({i \in Idx : log[i].op = "write" /\ log[i].arg = mode0}) <= 2
  /\ \A i \in Idx :
       (IsCheck(i, "remode_check") /\ ~log[i].ok) =>
         /\ status = "startup_error" /\ failStep = "remode"
         /\ NoWriteAfter(i)

C3_Witness ==
  /\ status = "startup_error" /\ failStep = "remode"
  /\ Cardinality({i \in Idx : log[i].op = "write" /\ log[i].arg = mode0
                                /\ log[i].ok}) = 2

\* C4: a failed check of the set-active, preset or set-continuous reply ends
\* the run in Failed at once: nothing is written after it, so the command is
\* not resent and no later handshake command goes out
C4_FatalNoRetry ==
  \A i \in Idx :
    (log[i].op = "check" /\ log[i].at \in FatalChecks /\ ~log[i].ok) =>
      /\ status = "startup_error" /\ failStep = FailName(log[i].at)
      /\ NoWriteAfter(i)

C4_Witness ==
  /\ status = "startup_error" /\ failStep = "preset"
  /\ \E i \in Idx : log[i].op = "write" /\ log[i].arg = preset /\ log[i].ok

\* C5: whenever the handshake has ended in Failed the port is closed
C5_FailedClosed ==
  (status = "startup_error" /\ failStep \in {"remode", "active", "preset", "cont"})
    => serial_port = "closed"

C5_Witness ==
  /\ status = "startup_error" /\ failStep = "cont"
  /\ \E i \in Idx : log[i].op = "close" /\ log[i].at = "cont_check"

\* C6: no sample is emitted before Streaming, none in a run that ends with a
\* start-up error, and every 79-byte read comes after the read of the
\* timer-reset reply
C6_NoSampleBeforeStreaming ==
  /\ ~Streaming => (imu = <<>> /\ mag = <<>>)
  /\ status = "startup_error" => (imu = <<>> /\ mag = <<>>)
  /\ \A i \in Idx :
       (log[i].op = "read" /\ log[i].arg = <<DATA_LENGTH>>) =>
         \E j \in Idx : /\ j < i /\ log[j].op = "read" /\ log[j].ok
                        /\ log[j].arg = <<TIMER_REPLY_LENGTH>>

C6_Witness ==
  /\ status = "startup_error" /\ failStep = "active" /\ reInitFlag
  /\ imu = <<>> /\ mag = <<>>

\* a step of main(): the handler counts its signal, a ROS shutdown sets the flag
MainStep == sigCount' = sigCount /\ rosShutdown' = rosShutdown /\ vars' # vars

\* C7: the step that finds a bad frame emits nothing, leaves the driver
\* running and goes back to the loop head; from the loop head, while no
\* shutdown is requested, the next step of main() is the 79-byte read
C7_BadFrameSoft ==
  [][ /\ ( Running /\ pc = "frame_check" /\ MainStep
           /\ ~validate_checksum(data, DATA_LENGTH) )
         => ( /\ imu' = imu /\ mag' = mag
              /\ status' = "running" /\ pc' = "loop_head" )
      /\ ( Running /\ pc = "loop_head" /\ MainStep /\ ~rosShutdown )
         => pc' = "frame_wait"
    ]_vars

\* a bad frame was dropped and a later frame was read
C7_Witness ==
  \E i, j \in Idx :
    /\ i < j
    /\ IsCheck(i, "frame_check") /\ ~log[i].ok
    /\ log[j].op = "read" /\ log[j].arg = <<DATA_LENGTH>> /\ log[j].ok

ValidFrames == Cardinality({i \in Idx : IsCheck(i, "frame_check") /\ log[i].ok})

\* C8: each valid frame gives one Imu sample, then one Mag sample with the
\* same stamp; at the loop head both counts equal the number of valid frames
C8_OneImuOneMag ==
  /\ Len(imu) = ValidFrames - (IF pc = "pub_imu" THEN 1 ELSE 0)
  /\ Len(mag) = Len(imu) - (IF pc = "pub_mag" THEN 1 ELSE 0)
  /\ pc = "loop_head" => (Len(imu) = ValidFrames /\ Len(mag) = ValidFrames)
  /\ \A i \in DOMAIN mag : mag[i].stamp = imu[i].stamp

C8_Witness ==
  pc = "loop_head" /\ Len(mag) >= 2 /\ delay # 0

\* C9: after an I/O failure of a transport read or write in Streaming, the
\* driver writes the stop command and then closes the port before it exits
C9_IoErrorShutdown ==
  \A i \in Idx :
    ( /\ status # "running" /\ sigCount = 0
      /\ log[i].op \in {"read", "write"} /\ ~log[i].ok
      /\ log[i].at \in {"frame_wait"} )
    => \E j, k \in Idx :
         /\ i < j /\ j < k
         /\ log[j].op = "write" /\ log[j].arg = stop
         /\ log[k].op = "close"

\* C10: a signal handled in Streaming makes the loop exit at its boundary
\* and the run end with stop command, settle delay and close, in that order
C10_SignalShutdown ==
  \A i \in Idx :
    ( /\ status # "running" /\ Streaming
      /\ log[i].op = "signal" /\ log[i].ok
      /\ log[i].at \in {"loop_head", "frame_wait", "frame_check",
                        "pub_imu", "pub_mag"}
      /\ \A m \in Idx : (log[m].who = "handler" /\ log[m].op = "write") => log[m].ok )
    => /\ pc \in {"final_stop", "final_sleep", "final_close"}
       /\ status = "exited"
       /\ \E j, k, l \in Idx :
            /\ i < j /\ j < k /\ k < l
            /\ log[j].op = "write" /\ log[j].arg = stop /\ log[j].ok
            /\ log[k].op = "sleep"
            /\ log[l].op = "close"

\* positions of main() inside a blocking boost::asio::read
WaitPcs == {"mode_wait", "remode_wait", "active_wait", "preset_wait",
            "cont_wait", "timer_wait", "frame_wait"}

\* C11: transport operations never overlap: the handler starts no write and
\* no close while main() is inside a transport read
C11_NoOverlap ==
  \A i \in Idx :
    (log[i].who = "handler" /\ log[i].op \in {"write", "close"})
      => log[i].at \notin WaitPcs

\* C19: every read, write and close is made on a handle that exists and is
\* open, whether main() or the handler makes it
C19_HandleOpen ==
  \A i \in Idx :
    log[i].op \in {"read", "write", "close"} => log[i].port = "open"

\* the signed 32-bit value of four bytes, byte 0 most significant
BigEndianInt(b) ==
  (IF b[1] >= 128 THEN b[1] - 256 ELSE b[1]) * 16777216
    + b[2] * 65536 + b[3] * 256 + b[4]

\* C12: extract_int returns the two's-complement big-endian value of its
\* four bytes, whatever the byte order of the host
C12_ExtractIntBigEndian ==
  idone => ires = BigEndianInt(ibytes)

\* frame bytes 73..76: the 19th 4-byte field
TickField(bytes) == <<bytes[74], bytes[75], bytes[76], bytes[77]>>

\* C13: the sample of a valid frame is stamped t0 + ticks/62500 s - delay,
\* ticks being the signed big-endian integer of frame bytes 73..76 (times are
\* counted in ticks of 1/62500 s)
C13_Timestamp ==
  (pc = "pub_mag" /\ Len(imu) > 0) =>
    imu[Len(imu)].stamp = t0 + BigEndianInt(TickField(data)) - delay

\* the writes and reads main() makes during the handshake, in order
HandshakeIo(e) ==
  /\ e.who = "main" /\ e.op \in {"write", "read"}
  /\ e.at \notin {"frame_wait", "final_stop"}

HandshakeSeq ==
  LET io == SelectSeq(log, HandshakeIo)
  IN  [i \in 1..Len(io) |-> <<io[i].op, io[i].arg>>]

Rd(n) == <<"read", <<n>>>>
Wr(cmd) == <<"write", cmd>>

ExpectedSeq(retried, activated) ==
  <<Wr(stop), Wr(mode0), Rd(4)>>
    \o (IF retried THEN <<Wr(mode0), Rd(4)>> ELSE <<>>)
    \o (IF activated THEN <<Wr(<<212, 163, 71, 1>>), Rd(4)>> ELSE <<>>)
    \o <<Wr(preset), Rd(4), Wr(<<212, 163, 71, 2>>), Rd(4),
         Wr(set_timer), Rd(7)>>

FirstModeBad == \E i \in Idx : IsCheck(i, "mode_check") /\ ~log[i].ok
ActiveWritten == \E i \in Idx : log[i].op = "write" /\ log[i].at = "active_write"

\* C14: in a run that has reached Streaming, main() has written and read
\* exactly: stop; mode query, reply; (mode query, reply, only after a bad
\* first reply); (set-active, reply, only when reply[2] was not 01); preset,
\* reply; set-continuous, reply; timer reset, reply
C14_CommandSequence ==
  /\ [](Streaming => HandshakeSeq = ExpectedSeq(FirstModeBad, ActiveWritten))
  /\ [][(Running /\ pc = "active_write" /\ MainStep /\ log' # log)
          => reply[3] # 1]_vars

C14_Witness == Streaming /\ FirstModeBad /\ ActiveWritten

\* C15: at the mode test the reply buffer holds a validated mode reply; the
\* set-active command D4 A3 47 01 is written exactly when reply[2] is not 01,
\* and otherwise main() goes straight to the preset command, writing and
\* reading nothing
C15_SetActiveIff ==
  /\ []((Running /\ pc = "active_write") =>
          validate_checksum(reply, REPLY_LENGTH))
  /\ [][(Running /\ pc = "active_write" /\ MainStep) =>
          IF reply[3] = 1
            THEN pc' = "preset_write" /\ log' = log
            ELSE /\ Len(log') = Len(log) + 1
                 /\ log'[Len(log')].op = "write"
                 /\ log'[Len(log')].arg = <<212, 163, 71, 1>>
                 /\ pc' \in {"active_wait", pc}
       ]_vars

C15_Witness ==
  pc = "preset_write" /\ reply[3] = 1 /\ ~ActiveWritten /\ Running

\* the float decoded from frame bytes c .. c+3
FloatAt(c) ==
  extract_float(<<data[c + 1], data[c + 2], data[c + 3], data[c + 4]>>, hostIsLE)

\* data holds a frame that was published
Published == validate_checksum(data, DATA_LENGTH) /\ Len(mag) > 0

\* C16: for a valid frame R(i,j) = M[j*3+i] with M[m] decoded from frame bytes
\* 37+4m .. 40+4m; acceleration, angular rate and magnetic field come from
\* bytes 1..12, 13..24 and 25..36
C16_Layout ==
  /\ (pc = "pub_mag" /\ Len(imu) > 0) =>
       LET s == imu[Len(imu)] IN
       /\ \A i, j \in 0..2 : s.R[i][j] = FloatAt(37 + 4 * (j * 3 + i))
       /\ \A i \in 0..2 : s.linear_acceleration[i][1] = FloatAt(1 + 4 * i)
       /\ \A i \in 0..2 : s.angular_velocity[i] = FloatAt(13 + 4 * i)
  /\ (pc = "loop_head" /\ Published) =>
       \A i \in 0..2 : mag[Len(mag)].magnetic_field[i] = FloatAt(25 + 4 * i)

C16_Witness ==
  /\ pc = "loop_head" /\ Published
  /\ imu[Len(imu)].R[0][1] # imu[Len(imu)].R[1][0]

\* a frame is in data, read and not yet replaced
FrameHeld == pc \in {"frame_check", "pub_imu", "pub_mag"}

\* C17: the k-th frame examined is bytes 79k .. 79k+78 of the stream received
\* after the timer reply, whatever happened to the frames before it; after
\* the link has lost a byte, no later frame starts at a frame header
C17_NoResync ==
  FrameHeld =>
    /\ data = SubSeq(wire, DATA_LENGTH * (framesRead - 1) + 1,
                     DATA_LENGTH * framesRead)
    /\ (firstDrop # 0 /\ framesRead > firstDrop) => data[1] # 204

C17_Witness ==
  /\ pc = "frame_check" /\ framesRead = 2 /\ firstDrop = 1
  /\ ~validate_checksum(SubSeq(wire, 1, DATA_LENGTH), DATA_LENGTH)
  /\ data[1] = 1

\* reply[0] + reply[1], the checksum of a mode reply
ReplySum == reply[1] + reply[2]

\* C18: a mode reply that passed validate_checksum has in reply[2] the high
\* byte of reply[0] + reply[1], so 0 or 1, and 1 exactly when that sum is at
\* least 256; the set-active command is skipped exactly in that case
C18_ModeIsCarry ==
  /\ []((Running /\ pc = "active_write") =>
          /\ validate_checksum(reply, REPLY_LENGTH)
          /\ reply[3] = ReplySum \div 256
          /\ reply[3] \in {0, 1}
          /\ (reply[3] = 1 <=> ReplySum >= 256))
  /\ [][(Running /\ pc = "active_write" /\ MainStep)
          => ((pc' = "preset_write" /\ log' = log) <=> ReplySum >= 256)]_vars

C18_Witness ==
  /\ Running /\ pc = "preset_write" /\ ReplySum >= 256
  /\ \A i \in Idx : log[i].at # "active_write"

\* the steps of the start-up and handshake, in program order
HandshakePcs ==
  <<"start", "param", "create", "open", "options", "stop_write", "stop_sleep",
    "mode_write", "mode_wait", "mode_check", "reinit_sleep", "reinit_open",
    "reinit_options", "remode_write", "remode_wait", "remode_check",
    "active_write", "active_wait", "active_check", "preset_write",
    "preset_wait", "preset_check", "cont_write", "cont_wait", "cont_check",
    "timer_write", "timer_wait", "set_t0", "loop_head">>

Rank(p) == CHOOSE i \in DOMAIN HandshakePcs : HandshakePcs[i] = p

OpCount(op) == Cardinality({i \in Idx : log[i].who = "main" /\ log[i].op = op})

\* C20: with no signal and every read and write returning, the handshake ends
\* in Streaming or Failed after at most 7 writes and 6 reads, and no step is
\* taken twice (the mode-query retry is a step of its own)
C20_HandshakeTerminates ==
  /\ <>(Streaming \/ status = "startup_error" \/ ~NoIoFailure)
  /\ [](NoIoFailure => status \in {"running", "startup_error"})
  /\ [](OpCount("write") <= 7 /\ OpCount("read") <= 6)
  /\ [][Rank(pc') > Rank(pc) \/ (pc' = pc /\ status' # "running")]_vars

C20_Witness ==
  /\ Streaming /\ NoIoFailure
  /\ OpCount("write") = 7 /\ OpCount("read") = 6

====
